---- MODULE Spec2Model ----
(***************************************************************************)
(* A model of the Ludo stake game: the LudoGame engine (bot/game_logic.py), *)
(* the request handlers (bot/callbacks.py, bot/handlers.py), the ledger and *)
(* game store (database_models/manager.py) and the dispute resolver        *)
(* (bot/dispute_resolver.py).                                              *)
(*                                                                         *)
(* Money is counted in cents (the columns are DECIMAL(.., 2)); a value     *)
(* with four decimals is counted in 1/100 cent before it is stored.        *)
(* The store returns game_data as the dict that was written, with its     *)
(* integer keys.  Calls to Telegram (edit_message_text, send_message) are  *)
(* taken to succeed; a failing one ends its handler without a write.       *)
(* Every await on the store is a separate step of a request, so requests   *)
(* interleave where the coroutines can.  An exception ends its handler:    *)
(* the request leaves its slot and nothing more is written.                *)
(*                                                                         *)
(* Spec is the deployed system: requests, store, ledger and resolver.      *)
(* EngineSpec is one LudoGame object played in memory from a board of a    *)
(* game in progress; it is where the rules of the board are checked.       *)
(***************************************************************************)
EXTENDS Integers, Sequences, FiniteSets, TLC

\* ------------------------------------------------------------- bounds
MaxGames == 2
MaxInFlight == 2
MaxDeposits == 1
MaxSettlements == 2
MaxJoins == 2
MaxRolls == 3
MaxInputs == 4
MaxTicks == 1
\* one tick of the clock, in seconds: longer than the timeout
TickSeconds == 100
MaxTokenIndex == 0
MaxRefusals == 1
MaxEngineCalls == 2

\* Telegram user ids are positive; two of them.
Accounts == {1, 2}
\* /play stakes, in cents: 0.01 and 50.00
Stakes == {1, 5000}
\* Chapa deposit amounts, in cents: 100.00
DepositAmounts == {10000}
WinConditions == {2}
\* the faces random.randint(1, 6) is taken to draw in a request: a six and a non-six
Faces == {1, 6}

\* ------------------------------------------------------------- constants
PATH_LENGTH == 52
HOME_STRETCH_START == 52
WINNING_POSITION == 58
GAME_TIMEOUT_SECONDS == 90
\* the safe cells without the four start cells
SAFE_ZONES_StarCells == {8, 21, 34, 47}

SAFE_ZONES == {0, 8, 13, 21, 26, 34, 39, 47}
None == -9

\* PLAYER_CONFIG[player_index]['start_pos']
StartPos(player_index) == player_index * 13

\* ------------------------------------------------------------- dict helpers
\* self.players is a dict: a sequence of entries in insertion order.
HasPlayer(players, pid) == \E i \in 1..Len(players) : players[i].id = pid

PlayerPos(players, pid) == CHOOSE i \in 1..Len(players) : players[i].id = pid

PlayerData(players, pid) == players[PlayerPos(players, pid)]

\* players[pid] = entry: an existing key keeps its place, a new key is appended
DictSet(players, entry) ==
    IF HasPlayer(players, entry.id)
    THEN [players EXCEPT ![PlayerPos(players, entry.id)] = entry]
    ELSE Append(players, entry)

\* list.count(value)
Count(tokens, value) == Cardinality({i \in 1..Len(tokens) : tokens[i] = value})

\* list.index(value), 0 when absent (ValueError)
IndexOf(seq, value) ==
    IF \E i \in 1..Len(seq) : seq[i] = value
    THEN CHOOSE i \in 1..Len(seq) : seq[i] = value /\ \A j \in 1..(i-1) : seq[j] # value
    ELSE 0

\* ------------------------------------------------------------- LudoGame
add_player(game, player_id) ==
    IF Len(game.players) >= 4 THEN game
    ELSE LET player_index == Len(game.players)
         IN [game EXCEPT
               !.players = DictSet(game.players,
                                   [id |-> player_id,
                                    player_index |-> player_index,
                                    start_pos |-> StartPos(player_index),
                                    tokens |-> <<-1, -1, -1, -1>>]),
               !.player_order = Append(game.player_order, player_id)]

LudoGame(creator_id, stake, win_condition) ==
    add_player([players |-> <<>>,
                player_order |-> <<>>,
                stake |-> stake,
                win_condition |-> win_condition,
                current_turn_player_id |-> creator_id,
                dice_roll |-> 0,
                consecutive_sixes |-> 0,
                winner |-> None],
               creator_id)

\* roll_dice with the face value drawn by the caller: <<game', turn_lost>>
roll_dice(game, face) ==
    LET sixes == IF face = 6 THEN game.consecutive_sixes + 1 ELSE 0
        turn_lost == (sixes = 3)
    IN <<[game EXCEPT !.dice_roll = face,
                      !.consecutive_sixes = IF turn_lost THEN 0 ELSE sixes],
         turn_lost>>

\* the movable tokens with the exact roll to 58 left out
get_movable_tokens_Short(game, player_id) ==
    LET tokens == PlayerData(game.players, player_id).tokens
    IN {i \in 0..3 :
          LET pos == tokens[i + 1]
          IN /\ pos # WINNING_POSITION
             /\ \/ pos = -1 /\ game.dice_roll = 6
                \/ /\ pos # -1
                   /\ IF pos >= HOME_STRETCH_START
                      THEN pos + game.dice_roll < WINNING_POSITION
                      ELSE TRUE}

\* get_movable_tokens: the set of token indices 0..3
get_movable_tokens(game, player_id) ==
    LET tokens == PlayerData(game.players, player_id).tokens
    IN {i \in 0..3 :
          LET pos == tokens[i + 1]
          IN /\ pos # WINNING_POSITION
             /\ \/ pos = -1 /\ game.dice_roll = 6
                \/ /\ pos # -1
                   /\ IF pos >= HOME_STRETCH_START
                      THEN pos + game.dice_roll <= WINNING_POSITION
                      ELSE TRUE}

\* one player's entry after a knockout pass over it
KnockedOut(data, position) ==
    [data EXCEPT !.tokens = [i \in 1..4 |-> IF data.tokens[i] = position THEN -1 ELSE data.tokens[i]]]

\* the loop of _handle_knockout from entry k on, in dict order; it returns
\* at the first opposing block it meets
RECURSIVE KnockoutFrom(_, _, _, _)
KnockoutFrom(players, k, position, current_player_id) ==
    IF k > Len(players) THEN players
    ELSE IF players[k].id = current_player_id
         THEN KnockoutFrom(players, k + 1, position, current_player_id)
    ELSE IF Count(players[k].tokens, position) > 1 THEN players
    ELSE KnockoutFrom([players EXCEPT ![k] = KnockedOut(players[k], position)],
                      k + 1, position, current_player_id)

handle_knockout(game, position, current_player_id) ==
    IF position \in SAFE_ZONES THEN game
    ELSE [game EXCEPT !.players = KnockoutFrom(game.players, 1, position, current_player_id)]

check_for_winner(game, player_id) ==
    IF Count(PlayerData(game.players, player_id).tokens, WINNING_POSITION) >= game.win_condition
    THEN [game EXCEPT !.winner = player_id]
    ELSE game

\* the move that never turns into the home stretch
IsPassingHome_Never(current_pos, dice_roll, start_pos) == FALSE

\* the loop of move_token, lines 103-107: does one of the dice_roll steps
\* from current_pos land on the player's start cell
IsPassingHome(current_pos, dice_roll, start_pos) ==
    \E n \in 1..dice_roll : (current_pos + n) % PATH_LENGTH = start_pos

\* the new position without the check against the winning position
NewPosition_NoClamp(current_pos, dice_roll, start_pos) ==
    IF ~IsPassingHome(current_pos, dice_roll, start_pos) /\ current_pos < HOME_STRETCH_START
    THEN (current_pos + dice_roll) % PATH_LENGTH
    ELSE current_pos + dice_roll

\* move_token, lines 97-121: the position a token not in the yard moves to
NewPosition(current_pos, dice_roll, start_pos) ==
    LET home_entry_pos == (start_pos - 1 + PATH_LENGTH) % PATH_LENGTH
        raw == IF ~IsPassingHome(current_pos, dice_roll, start_pos)
                  /\ current_pos < HOME_STRETCH_START
               THEN (current_pos + dice_roll) % PATH_LENGTH
               ELSE IF current_pos < HOME_STRETCH_START
                    THEN HOME_STRETCH_START
                         + (dice_roll - ((home_entry_pos - current_pos + PATH_LENGTH) % PATH_LENGTH))
                         - 1
                    ELSE current_pos + dice_roll
    IN IF raw > WINNING_POSITION THEN current_pos ELSE raw

SetToken(game, player_id, token_index, pos) ==
    LET k == PlayerPos(game.players, player_id)
    IN [game EXCEPT !.players[k].tokens[token_index + 1] = pos]

\* move_token for a player of the game (callers check the KeyError)
move_token(game, player_id, token_index) ==
    LET player_data == PlayerData(game.players, player_id)
        current_pos == player_data.tokens[token_index + 1]
    IN IF current_pos = -1
       THEN handle_knockout(SetToken(game, player_id, token_index, player_data.start_pos),
                            player_data.start_pos, player_id)
       ELSE LET new_pos == NewPosition(current_pos, game.dice_roll, player_data.start_pos)
                moved == SetToken(game, player_id, token_index, new_pos)
                after == IF new_pos < HOME_STRETCH_START
                         THEN handle_knockout(moved, new_pos, player_id)
                         ELSE moved
            IN check_for_winner(after, player_id)

\* advance_turn raises ValueError when the current player is not in player_order
CanAdvance(game) == IndexOf(game.player_order, game.current_turn_player_id) # 0

advance_turn(game) ==
    LET current_player_index == IndexOf(game.player_order, game.current_turn_player_id) - 1
        next_player_index == (current_player_index + 1) % Len(game.player_order)
    IN [game EXCEPT !.current_turn_player_id = game.player_order[next_player_index + 1]]

get_state(game) ==
    [players |-> game.players,
     current_turn_player_id |-> game.current_turn_player_id,
     dice_roll |-> game.dice_roll,
     winner |-> game.winner]

\* callbacks.py: game = LudoGame(0, 0, 0); game.__dict__.update(game_data)
Rehydrate(game_data) ==
    [LudoGame(0, 0, 0) EXCEPT
       !.players = game_data.players,
       !.current_turn_player_id = game_data.current_turn_player_id,
       !.dice_roll = game_data.dice_roll,
       !.winner = game_data.winner]

\* ------------------------------------------------------------- state
VARIABLES
    balance,        \* users.balance, in cents
    lock,           \* users row locks (SELECT ... FOR UPDATE): the holding request, 0 when free
    games,          \* the games table, indexed by game_id (SERIAL)
    reqs,           \* the requests in flight, one coroutine per slot
    resolver,       \* the dispute resolver loop: where it is and the rows it scanned
    now,            \* NOW(), in ticks
    deposits,       \* history: process_deposit calls per account
    escrow,         \* history: per game, what start_game_transaction did
    settled,        \* history: per game, what end_game_transaction did
    rolls,          \* history: the roll requests taken up
    sixes,          \* history: per game, the sixes rolled in a row in the current turn
    refused,        \* history: the requests on an existing game refused as "not your turn"
    engine,         \* a LudoGame object played in memory, with the last call made on it
    pending         \* history: per game, whether a saved roll has not been followed by a saved move or pass

vars == <<balance, lock, games, reqs, resolver, now, deposits, escrow, settled, rolls, sixes, refused, engine, pending>>

RECURSIVE SumOver(_, _)
SumOver(f, S) == IF S = {} THEN 0 ELSE LET x == CHOOSE y \in S : TRUE IN f[x] + SumOver(f, S \ {x})

Slots == 1..MaxInFlight
GameIds == 1..MaxGames
Terminal == {"finished", "forfeited"}

Idle == [pc |-> "idle", kind |-> "none", user |-> 0, gid |-> 0, rec |-> None, eng |-> None]

\* the /play, join and roll requests taken up and the clock ticks so far, and
\* whether one more is within the bound
Inputs ==
    Len(games) + rolls + now + refused
      + SumOver([g \in DOMAIN escrow |-> escrow[g].accepted + escrow[g].rejected], DOMAIN escrow)
      + Cardinality({t \in Slots : reqs[t].kind = "join"})

InputsLeft == Inputs < MaxInputs

\* the lowest free slot takes the next request
FreeSlot(s) == reqs[s].pc = "idle" /\ \A t \in 1..(s - 1) : reqs[t].pc # "idle"

Exists(game_id) == game_id \in 1..Len(games)

\* ------------------------------------------------------------- ledger arithmetic
\* assignment to a DECIMAL(.., 2) column: a value in 1/100 cent, rounded to cents
Round2(v) == (v + 50) \div 100

\* the prize computed in binary floating point and truncated to cents
Prize_Truncated(stake) ==
    LET total_pot == stake * 2
        commission == total_pot * 10
    IN ((total_pot * 100 - commission) \div 100) * 100

\* end_game_transaction, lines 147-149, in 1/100 cent: stake * 2 - stake * 2 * 0.10
Prize(stake) ==
    LET total_pot == stake * 2
        commission == total_pot * 10
    IN total_pot * 100 - commission

\* process_deposit, lines 166-168, in 1/100 cent: amount - amount * 0.02
DepositFinalAmount(amount) == amount * 100 - amount * 2

\* UPDATE users SET balance = balance + v WHERE telegram_id = id (v in 1/100 cent)
CreditUser(bal, id, v) ==
    [a \in Accounts |-> IF a = id THEN Round2(bal[a] * 100 + v) ELSE bal[a]]

\* ------------------------------------------------------------- game store
create_game(creator_id, stake, win_condition, game_data, t) ==
    [creator_id |-> creator_id,
     opponent_id |-> None,
     stake |-> stake,
     win_condition |-> win_condition,
     winner_id |-> None,
     status |-> "lobby",
     current_turn_id |-> creator_id,
     game_data |-> game_data,
     last_action_at |-> t]

save_game_state(rows, game_id, game_data, current_turn_id, t) ==
    [rows EXCEPT ![game_id] = [@ EXCEPT !.game_data = game_data,
                                        !.current_turn_id = current_turn_id,
                                        !.last_action_at = t]]

\* update_game_after_start reads game_data['player_order'] first: a KeyError
\* when the dict has no such key, and then no UPDATE is sent
UpdateAfterStartRaises(game_data) == "player_order" \notin DOMAIN game_data

update_game_after_start(rows, game_id, game_data, t) ==
    IF UpdateAfterStartRaises(game_data) THEN rows
    ELSE LET opponent_id ==
               CHOOSE pid \in {game_data.player_order[i] : i \in 1..Len(game_data.player_order)} :
                   /\ HasPlayer(game_data.players, pid)
                   /\ pid # PlayerData(game_data.players, pid).player_index
                   /\ PlayerData(game_data.players, pid).player_index = 0
         IN [rows EXCEPT ![game_id] = [@ EXCEPT !.status = "active",
                                                !.opponent_id = opponent_id,
                                                !.game_data = game_data,
                                                !.last_action_at = t]]

\* end_game_transaction, lines 155-159: the UPDATE of the games table
EndGameRows(rows, game_id, winner_id, forfeited) ==
    [g \in 1..Len(rows) |->
        IF g = game_id
        THEN [rows[g] EXCEPT !.status = IF forfeited THEN "forfeited" ELSE "finished",
                             !.winner_id = winner_id]
        ELSE rows[g]]

\* end_game_transaction, line 152: the UPDATE of the users table
EndGameBalance(bal, winner_id, stake) == CreditUser(bal, winner_id, Prize(stake))

\* find_inactive_games: the game ids the query selects
find_inactive_games(rows, t) ==
    {g \in 1..Len(rows) :
        /\ rows[g].status = "active"
        /\ rows[g].last_action_at * TickSeconds < t * TickSeconds - GAME_TIMEOUT_SECONDS}

\* the transaction relying on the handler's earlier check of the balance
InsufficientFunds_Unchecked(creator_balance, opponent_balance, stake) == FALSE

\* start_game_transaction, line 101, on the balances read under the row locks
InsufficientFunds(creator_balance, opponent_balance, stake) ==
    creator_balance < stake \/ opponent_balance < stake

\* the second UPDATE repeating the creator's id
DebitStakes_CreatorTwice(bal, creator_id, opponent_id, stake) ==
    [a \in Accounts |-> bal[a] - (IF a = creator_id THEN 2 * stake ELSE 0)]

\* start_game_transaction, lines 106-107
DebitStakes(bal, creator_id, opponent_id, stake) ==
    [a \in Accounts |->
        bal[a] - (IF a = creator_id THEN stake ELSE 0) - (IF a = opponent_id THEN stake ELSE 0)]

\* ------------------------------------------------------------- history
NoEscrow == [accepted |-> 0, rejected |-> 0, creator |-> 0, opponent |-> 0, opponents |-> {}]
NoSettle == [credits |-> 0, writes |-> 0, credited |-> 0, aborted |-> FALSE]

\* no LudoGame object is kept in memory between requests
NoEngine == [game |-> None, op |-> "none"]

Init ==
    /\ balance = [a \in Accounts |-> 0]
    /\ lock = [a \in Accounts |-> 0]
    /\ games = <<>>
    /\ reqs = [s \in Slots |-> Idle]
    /\ resolver = [pc |-> "sleep", found |-> {}]
    /\ now = 0
    /\ deposits = [a \in Accounts |-> 0]
    /\ escrow = [g \in GameIds |-> NoEscrow]
    /\ settled = [g \in GameIds |-> NoSettle]
    /\ rolls = 0
    /\ sixes = [g \in GameIds |-> 0]
    /\ refused = 0
    /\ engine = NoEngine
    /\ pending = [g \in GameIds |-> FALSE]

\* ------------------------------------------------------------- clock, deposits, /play
\* the clock is read from the first game's creation on (no timestamp exists before)
Tick ==
    /\ now < MaxTicks
    /\ Len(games) > 0
    /\ InputsLeft
    /\ now' = now + 1
    /\ UNCHANGED <<balance, lock, games, reqs, resolver, deposits, escrow, settled, rolls, sixes, refused, engine, pending>>

\* chapa_webhook -> process_deposit: one UPDATE, which waits for the row lock
Deposit(a, amount) ==
    /\ deposits[a] < MaxDeposits
    /\ lock[a] = 0
    /\ balance' = CreditUser(balance, a, DepositFinalAmount(amount))
    /\ deposits' = [deposits EXCEPT ![a] = @ + 1]
    /\ UNCHANGED <<lock, games, reqs, resolver, now, escrow, settled, rolls, sixes, refused, engine, pending>>

\* handlers.play: the balance check and the INSERT of the lobby
Play(user, stake, win_condition) ==
    /\ Len(games) < MaxGames
    /\ InputsLeft
    /\ balance[user] >= stake
    /\ games' = Append(games,
                       create_game(user, stake, win_condition,
                                   get_state(LudoGame(user, stake, win_condition)), now))
    /\ UNCHANGED <<balance, lock, reqs, resolver, now, deposits, escrow, settled, rolls, sixes, refused, engine, pending>>

\* ------------------------------------------------------------- handlers: what a request computes
Truthy(id) == id # None /\ id # 0

Raised == [pc |-> "done", eng |-> None]

\* handle_roll_dice, lines 90-122, on the row it read, with the face drawn
RollOutcome(rec, player_id, face) ==
    LET rolled == roll_dice(Rehydrate(rec.game_data), face)
        game == rolled[1]
        turn_lost == rolled[2]
    IN IF turn_lost
       THEN IF CanAdvance(game) THEN [pc |-> "save", eng |-> advance_turn(game)] ELSE Raised
       ELSE IF HasPlayer(game.players, player_id) THEN [pc |-> "save", eng |-> game] ELSE Raised

\* handle_game_over, lines 171-172: next(...) raises when nobody else is in player_order
HasLoser(game) == \E i \in 1..Len(game.player_order) : game.player_order[i] # game.winner

\* handle_move_token, lines 132-152
MoveOutcome(rec, player_id, token_index) ==
    LET game == Rehydrate(rec.game_data)
    IN IF ~HasPlayer(game.players, player_id) THEN Raised
       ELSE LET moved == move_token(game, player_id, token_index)
            IN IF Truthy(moved.winner)
               THEN IF HasLoser(moved) THEN [pc |-> "settle", eng |-> moved] ELSE Raised
               ELSE IF moved.dice_roll # 6
                    THEN IF CanAdvance(moved)
                         THEN [pc |-> "save", eng |-> advance_turn(moved)]
                         ELSE Raised
                    ELSE [pc |-> "save", eng |-> moved]

\* handle_pass_turn, lines 160-168
PassOutcome(rec) ==
    LET game == Rehydrate(rec.game_data)
    IN IF CanAdvance(game) THEN [pc |-> "save", eng |-> advance_turn(game)] ELSE Raised

\* the guard shared by roll, move and pass (lines 86, 128, 157)
NotYourTurn(game_id, player_id) ==
    ~Exists(game_id) \/ player_id # games[game_id].current_turn_id

\* handle_join_game, lines 68-70
JoinedGame(rec, player_b_id) ==
    add_player([LudoGame(0, 0, 0) EXCEPT !.players = rec.players], player_b_id)

\* a game_record as a handler keeps it after its checks: the fields that
\* handle_join_game, handle_game_over and resolve_game go on to read
Read(row) ==
    [creator_id |-> row.creator_id,
     opponent_id |-> row.opponent_id,
     current_turn_id |-> row.current_turn_id,
     stake |-> row.stake,
     players |-> row.game_data.players]

\* handle_join_game, line 77: game.players[game.current_turn_player_id] is a KeyError
JoinRenderRaises(game) == ~HasPlayer(game.players, game.current_turn_player_id)

\* ------------------------------------------------------------- handle_join_game
\* a join is taken up while join attempts are left in the bound
JoinsLeft ==
    SumOver([g \in DOMAIN escrow |-> escrow[g].accepted + escrow[g].rejected], DOMAIN escrow)
      + Cardinality({t \in Slots : reqs[t].kind = "join"})
      < MaxJoins

\* lines 42-50: get_game and the lobby and own-game checks
JoinStart(s, player_b_id, game_id) ==
    /\ FreeSlot(s)
    /\ JoinsLeft
    /\ InputsLeft
    /\ IF \/ ~Exists(game_id)
          \/ games[game_id].status # "lobby"
          \/ player_b_id = games[game_id].creator_id
       THEN UNCHANGED reqs
       ELSE reqs' = [reqs EXCEPT ![s] = [pc |-> "balance", kind |-> "join", user |-> player_b_id,
                                         gid |-> game_id, rec |-> Read(games[game_id]), eng |-> None]]
    /\ UNCHANGED <<balance, lock, games, resolver, now, deposits, escrow, settled, rolls, sixes, refused, engine, pending>>

\* lines 52-56: get_user_balance and the funds check
JoinBalance(s) ==
    /\ reqs[s].pc = "balance"
    /\ reqs' = [reqs EXCEPT ![s] = IF balance[reqs[s].user] < reqs[s].rec.stake
                                   THEN Idle
                                   ELSE [@ EXCEPT !.pc = "lock_creator"]]
    /\ UNCHANGED <<balance, lock, games, resolver, now, deposits, escrow, settled, rolls, sixes, refused, engine, pending>>

\* start_game_transaction, line 98: SELECT balance ... FOR UPDATE of the creator
JoinLockCreator(s) ==
    /\ reqs[s].pc = "lock_creator"
    /\ lock[reqs[s].rec.creator_id] = 0
    /\ lock' = [lock EXCEPT ![reqs[s].rec.creator_id] = s]
    /\ reqs' = [reqs EXCEPT ![s] = [@ EXCEPT !.pc = "lock_opp",
                                            !.eng = balance[reqs[s].rec.creator_id]]]
    /\ UNCHANGED <<balance, games, resolver, now, deposits, escrow, settled, rolls, sixes, refused, engine, pending>>

\* start_game_transaction, lines 99-108: SELECT ... FOR UPDATE of the opponent, the
\* check, the two debits and the commit, which releases both locks
JoinLockOpponent(s) ==
    /\ reqs[s].pc = "lock_opp"
    /\ lock[reqs[s].user] = 0
    /\ LET r == reqs[s]
           g == r.gid
           creator_balance == r.eng
           opponent_balance == balance[r.user]
       IN IF InsufficientFunds(creator_balance, opponent_balance, r.rec.stake)
          THEN /\ reqs' = [reqs EXCEPT ![s] = Idle]
               /\ escrow' = [escrow EXCEPT ![g].rejected = @ + 1]
               /\ UNCHANGED balance
          ELSE /\ balance' = DebitStakes(balance, r.rec.creator_id, r.user, r.rec.stake)
               /\ reqs' = [reqs EXCEPT ![s] = [@ EXCEPT !.pc = "finish", !.eng = None]]
               /\ escrow' = [escrow EXCEPT
                               ![g].accepted = @ + 1,
                               ![g].creator = @ + (balance[r.rec.creator_id] - balance'[r.rec.creator_id]),
                               ![g].opponent = @ + (balance[r.user] - balance'[r.user]),
                               ![g].opponents = @ \cup {r.user}]
    /\ lock' = [a \in Accounts |-> IF lock[a] = s THEN 0 ELSE lock[a]]
    /\ UNCHANGED <<games, resolver, now, deposits, settled, rolls, sixes, refused, engine, pending>>

\* the request whose row lock request s waits for (0: none)
Blocker(s) ==
    IF s # 0 /\ reqs[s].pc = "lock_opp" THEN lock[reqs[s].user] ELSE 0

RECURSIVE BlockerN(_, _)
BlockerN(s, n) == IF n = 0 THEN s ELSE IF s = 0 THEN 0 ELSE BlockerN(Blocker(s), n - 1)

InWaitCycle(s) == \E n \in 1..MaxInFlight : BlockerN(s, n) = s

\* two transactions wait for each other's row: the store aborts one of them
\* (deadlock detected), its locks are released and the handler ends with the error
JoinDeadlock(s) ==
    /\ reqs[s].pc = "lock_opp"
    /\ InWaitCycle(s)
    /\ lock' = [a \in Accounts |-> IF lock[a] = s THEN 0 ELSE lock[a]]
    /\ reqs' = [reqs EXCEPT ![s] = Idle]
    /\ UNCHANGED <<balance, games, resolver, now, deposits, escrow, settled, rolls, sixes, refused, engine, pending>>

\* a join that completes: the row is written as update_game_after_start is meant to
JoinFinishRows_Completes(rows, rec, player_b_id, game_id, t) ==
    [rows EXCEPT ![game_id] =
        [@ EXCEPT !.status = "active",
                  !.opponent_id = player_b_id,
                  !.game_data = get_state(JoinedGame(rec, player_b_id)),
                  !.last_action_at = t]]

\* handle_join_game, lines 68-80, as the games table sees it: the KeyError of
\* line 77 ends the handler before update_game_after_start is called
JoinFinishRows(rows, rec, player_b_id, game_id, t) ==
    LET game == JoinedGame(rec, player_b_id)
    IN IF JoinRenderRaises(game)
       THEN rows
       ELSE update_game_after_start(rows, game_id, get_state(game), t)

\* lines 68-80: the engine is rebuilt, the board is rendered and the row is updated
JoinFinish(s) ==
    /\ reqs[s].pc = "finish"
    /\ games' = JoinFinishRows(games, reqs[s].rec, reqs[s].user, reqs[s].gid, now)
    /\ reqs' = [reqs EXCEPT ![s] = Idle]
    /\ UNCHANGED <<balance, lock, resolver, now, deposits, escrow, settled, rolls, sixes, refused, engine, pending>>

\* ------------------------------------------------------------- roll, move, pass
BeginReq(s, kind, player_id, game_id, out) ==
    reqs' = [reqs EXCEPT ![s] = IF out.pc = "done" THEN Idle
                                   ELSE [pc |-> out.pc, kind |-> kind, user |-> player_id,
                                         gid |-> game_id,
                                         rec |-> IF out.pc = "settle" THEN Read(games[game_id]) ELSE None,
                                         eng |-> out.eng]]

Begin(s, kind, player_id, game_id, out) ==
    /\ BeginReq(s, kind, player_id, game_id, out)
    /\ UNCHANGED <<balance, lock, games, resolver, now, deposits, escrow, settled, rolls, sixes, refused, engine, pending>>

\* the sixes rolled in a row in a turn, the roll of this face included; a third
\* six ends the turn, so the next roll starts a new row
SixesInARow(n, face) == IF face = 6 THEN (n % 3) + 1 ELSE 0

\* the reply as sent with the row's inactivity timer reset
NotYourTurnReply_TouchesRow(game_id) ==
    /\ refused < MaxRefusals
    /\ InputsLeft
    /\ refused' = IF Exists(game_id) THEN refused + 1 ELSE refused
    /\ games' = IF Exists(game_id)
                THEN [games EXCEPT ![game_id] = [@ EXCEPT !.last_action_at = now]]
                ELSE games
    /\ UNCHANGED <<balance, lock, reqs, resolver, now, deposits, escrow, settled, rolls, sixes, engine, pending>>

\* lines 86-88, 128-130, 157-158: the request is answered (roll, move) or dropped
\* (pass) and the handler returns
NotYourTurnReply(game_id) ==
    /\ refused < MaxRefusals
    /\ InputsLeft
    /\ refused' = IF Exists(game_id) THEN refused + 1 ELSE refused
    /\ UNCHANGED <<balance, lock, games, reqs, resolver, now, deposits, escrow, settled, rolls, sixes, engine, pending>>

RollStart(s, player_id, game_id, face) ==
    /\ FreeSlot(s)
    /\ IF NotYourTurn(game_id, player_id)
       THEN NotYourTurnReply(game_id)
       ELSE /\ rolls < MaxRolls
            /\ InputsLeft
            /\ rolls' = rolls + 1
            /\ sixes' = [sixes EXCEPT ![game_id] = SixesInARow(@, face)]
            /\ BeginReq(s, "roll", player_id, game_id, RollOutcome(games[game_id], player_id, face))
            /\ UNCHANGED <<balance, lock, games, resolver, now, deposits, escrow, settled, refused, engine, pending>>

\* a settlement is taken up while settlements are left in the bound
SettlesLeft ==
    SumOver([g \in DOMAIN settled |-> settled[g].credits], DOMAIN settled)
      + Cardinality({t \in Slots : reqs[t].pc = "settle"})
      < MaxSettlements

MoveStart(s, player_id, game_id, token_index) ==
    /\ FreeSlot(s)
    /\ IF NotYourTurn(game_id, player_id)
       THEN NotYourTurnReply(game_id)
       ELSE LET out == MoveOutcome(games[game_id], player_id, token_index)
            IN /\ out.pc = "settle" => SettlesLeft
               /\ Begin(s, "move", player_id, game_id, out)

PassStart(s, player_id, game_id) ==
    /\ FreeSlot(s)
    /\ IF NotYourTurn(game_id, player_id)
       THEN NotYourTurnReply(game_id)
       ELSE Begin(s, "pass", player_id, game_id, PassOutcome(games[game_id]))

\* the save_game_state that ends a roll, a move or a pass
SaveGameState(s) ==
    /\ reqs[s].pc = "save"
    /\ games' = save_game_state(games, reqs[s].gid, get_state(reqs[s].eng),
                                reqs[s].eng.current_turn_player_id, now)
    /\ reqs' = [reqs EXCEPT ![s] = Idle]
    /\ sixes' = IF reqs[s].eng.current_turn_player_id # games[reqs[s].gid].current_turn_id
                THEN [sixes EXCEPT ![reqs[s].gid] = 0]
                ELSE sixes
    /\ pending' = [pending EXCEPT ![reqs[s].gid] = (reqs[s].kind = "roll")]
    /\ UNCHANGED <<balance, lock, resolver, now, deposits, escrow, settled, rolls, refused, engine>>

\* ------------------------------------------------------------- settlement
\* end_game_transaction inside conn.transaction(): both UPDATEs commit together, or
\* (committed = FALSE: the store fails part-way) both are rolled back
\* the credit sent outside the transaction: it stays when the status write fails
SettleBalance_NoTransaction(bal, winner_id, stake, committed) ==
    EndGameBalance(bal, winner_id, stake)

SettleBalance(bal, winner_id, stake, committed) ==
    IF committed THEN EndGameBalance(bal, winner_id, stake) ELSE bal

SettleRows(rows, game_id, winner_id, forfeited, committed) ==
    IF committed THEN EndGameRows(rows, game_id, winner_id, forfeited) ELSE rows

\* the UPDATE of the winner's row waits for a row lock held by a join
EndGameTransaction(game_id, winner_id, stake, forfeited, committed) ==
    /\ winner_id \in Accounts => lock[winner_id] = 0
    /\ balance' = SettleBalance(balance, winner_id, stake, committed)
    /\ games' = SettleRows(games, game_id, winner_id, forfeited, committed)
    /\ settled' = [settled EXCEPT
                     ![game_id].credits = @ + (IF balance' # balance THEN 1 ELSE 0),
                     ![game_id].writes = @ + (IF committed THEN 1 ELSE 0),
                     ![game_id].credited = @ + SumOver([a \in Accounts |-> balance'[a] - balance[a]],
                                                       Accounts),
                     ![game_id].aborted = @ \/ ~committed]

\* handle_game_over, lines 171-178
GameOver(s, committed) ==
    /\ reqs[s].pc = "settle"
    /\ EndGameTransaction(reqs[s].gid, reqs[s].eng.winner, reqs[s].rec.stake, FALSE, committed)
    /\ reqs' = [reqs EXCEPT ![s] = Idle]
    /\ pending' = IF committed THEN [pending EXCEPT ![reqs[s].gid] = FALSE] ELSE pending
    /\ UNCHANGED <<lock, resolver, now, deposits, escrow, rolls, sixes, refused, engine>>

\* ------------------------------------------------------------- dispute resolver
\* check_for_inactive_games, line 73: the scan keeps the rows as they were read
ResolverScan ==
    /\ resolver.pc = "sleep"
    /\ Len(games) > 0
    /\ resolver' = [pc |-> "resolve",
                    found |-> {[game_id |-> g, row |-> Read(games[g])] : g \in find_inactive_games(games, now)}]
    /\ UNCHANGED <<balance, lock, games, reqs, now, deposits, escrow, settled, rolls, sixes, refused, engine, pending>>

\* resolve_game, lines 26-32
ForfeitWinner(row) ==
    IF row.current_turn_id = row.creator_id THEN row.opponent_id ELSE row.creator_id

\* check_for_inactive_games, lines 74-88: resolve_game on the next scanned row, or
\* the sleep when none is left
ResolverNext(committed) ==
    /\ resolver.pc = "resolve"
    /\ IF resolver.found = {}
       THEN /\ resolver' = [pc |-> "sleep", found |-> {}]
            /\ UNCHANGED <<balance, games, settled>>
       ELSE \E e \in resolver.found :
              /\ resolver' = [resolver EXCEPT !.found = @ \ {e}]
              /\ IF Truthy(ForfeitWinner(e.row))
                 THEN /\ SettlesLeft
                      /\ EndGameTransaction(e.game_id, ForfeitWinner(e.row), e.row.stake,
                                            TRUE, committed)
                 ELSE UNCHANGED <<balance, games, settled>>
    /\ UNCHANGED <<lock, reqs, now, deposits, escrow, rolls, sixes, refused, engine, pending>>

\* ------------------------------------------------------------- the system
Next ==
    \/ Tick
    \/ \E a \in Accounts, amount \in DepositAmounts : Deposit(a, amount)
    \/ \E u \in Accounts, st \in Stakes, wc \in WinConditions : Play(u, st, wc)
    \/ \E s \in Slots, u \in Accounts, g \in GameIds : JoinStart(s, u, g)
    \/ \E s \in Slots : JoinBalance(s)
    \/ \E s \in Slots : JoinLockCreator(s)
    \/ \E s \in Slots : JoinLockOpponent(s)
    \/ \E s \in Slots : JoinDeadlock(s)
    \/ \E s \in Slots : JoinFinish(s)
    \/ \E s \in Slots, u \in Accounts, g \in GameIds, face \in Faces : RollStart(s, u, g, face)
    \/ \E s \in Slots, u \in Accounts, g \in GameIds, i \in 0..MaxTokenIndex : MoveStart(s, u, g, i)
    \/ \E s \in Slots, u \in Accounts, g \in GameIds : PassStart(s, u, g)
    \/ \E s \in Slots : SaveGameState(s)
    \/ \E s \in Slots, committed \in BOOLEAN : GameOver(s, committed)
    \/ ResolverScan
    \/ \E committed \in BOOLEAN : ResolverNext(committed)

Spec == Init /\ [][Next]_vars

\* ------------------------------------------------------------- the engine in memory
\* A three-player LudoGame object as the engine's own calls build and change it,
\* without the round trip through the store: the boards it starts from are
\* positions of a game in progress, and each step is one call sequence of a
\* handler on the object.

\* the cells the first token of the creator starts from
MoverCells == {-1, 3, 7, 50, 51, 53, 57, 58}
\* the cells the second token of the creator starts from
HomeCells == {-1, 58}
\* the cells the tokens of the other players start from: the creator's start
\* cell, and a safe and a non-safe cell within reach of the creator's first token
TargetCells == {-1, 0, 8, 9}
EngineWinConditions == {1, 2}
EngineFaces == 1..6

\* LudoGame(1, ..) joined by players 2 and 3
Roster(win_condition) ==
    add_player(add_player(LudoGame(1, 0, win_condition), 2), 3)

Board(a0, a1, b0, b1, c0, win_condition) ==
    SetToken(SetToken(SetToken(SetToken(SetToken(Roster(win_condition),
        1, 0, a0), 1, 1, a1), 2, 0, b0), 2, 1, b1), 3, 0, c0)

\* the boards of a game in progress: nobody has reached the win condition yet
Boards ==
    {game \in {Board(a0, a1, b0, b1, c0, wc) :
                  a0 \in MoverCells, a1 \in HomeCells, b0 \in TargetCells, b1 \in TargetCells,
                  c0 \in TargetCells, wc \in EngineWinConditions} :
        Count(PlayerData(game.players, 1).tokens, WINNING_POSITION) < game.win_condition}

\* LudoGame(1, ..) joined by player 2 alone
Duel(win_condition) == add_player(LudoGame(1, 0, win_condition), 2)

\* the boards of a two-player game in progress
DuelBoards ==
    {SetToken(SetToken(SetToken(Duel(wc), 1, 0, a0), 2, 0, b0), 2, 1, b1) :
        a0 \in MoverCells \ {WINNING_POSITION}, b0 \in TargetCells, b1 \in TargetCells,
        wc \in EngineWinConditions}

\* LudoGame(1, ..) joined by players 2, 3 and 4
FullRoster == add_player(add_player(add_player(LudoGame(1, 0, 1), 2), 3), 4)

\* the boards of a four-player game in which it is the turn of one player, whose
\* first token is somewhere on the shared path
LapBoards ==
    {[SetToken(FullRoster, pid, 0, pos) EXCEPT !.current_turn_player_id = pid] :
        pid \in 1..4, pos \in 0..(PATH_LENGTH - 1)}

EngineInit ==
    /\ balance = [a \in Accounts |-> 0]
    /\ lock = [a \in Accounts |-> 0]
    /\ games = <<>>
    /\ reqs = [s \in Slots |-> Idle]
    /\ resolver = [pc |-> "sleep", found |-> {}]
    /\ now = 0
    /\ deposits = [a \in Accounts |-> 0]
    /\ escrow = [g \in GameIds |-> NoEscrow]
    /\ settled = [g \in GameIds |-> NoSettle]
    /\ rolls = 0
    /\ sixes = [g \in GameIds |-> 0]
    /\ refused = 0
    /\ pending = [g \in GameIds |-> FALSE]
    /\ \E game \in Boards \cup DuelBoards \cup LapBoards :
          engine = [game |-> game, op |-> "none", player_id |-> 0, token_index |-> 0,
                    before |-> game, ret |-> None, calls |-> 0]

EngineCall(game, op, player_id, token_index, ret) ==
    /\ engine.calls < MaxEngineCalls
    /\ engine.game.winner = None
    /\ engine' = [game |-> game, op |-> op, player_id |-> player_id, token_index |-> token_index,
                  before |-> engine.game, ret |-> ret, calls |-> engine.calls + 1]
    /\ UNCHANGED <<balance, lock, games, reqs, resolver, now, deposits, escrow, settled,
                   rolls, sixes, refused, pending>>

\* handle_roll_dice, lines 93-96, on the object
PlayRoll(game, face) ==
    LET rolled == roll_dice(game, face)
    IN IF rolled[2] THEN advance_turn(rolled[1]) ELSE rolled[1]

\* handle_move_token, lines 135-142, on the object
PlayMove(game, player_id, token_index) ==
    LET moved == move_token(game, player_id, token_index)
    IN IF Truthy(moved.winner) THEN moved
       ELSE IF moved.dice_roll # 6 THEN advance_turn(moved)
       ELSE moved

EngineRoll(face) ==
    /\ face \in EngineFaces
    /\ EngineCall(PlayRoll(engine.game, face), "roll",
               engine.game.current_turn_player_id, 0, roll_dice(engine.game, face)[2])

\* handle_roll_dice, line 107
EngineMovable ==
    /\ engine.game.dice_roll # 0
    /\ EngineCall(engine.game, "movable", engine.game.current_turn_player_id, 0,
                  get_movable_tokens(engine.game, engine.game.current_turn_player_id))

\* the move request of the player whose turn it is, for any of the four tokens
EngineMove(token_index) ==
    /\ token_index \in 0..3
    /\ EngineCall(PlayMove(engine.game, engine.game.current_turn_player_id, token_index), "move",
               engine.game.current_turn_player_id, token_index, None)

EngineNext ==
    \/ \E face \in EngineFaces : EngineRoll(face)
    \/ EngineMovable
    \/ \E token_index \in 0..3 : EngineMove(token_index)

EngineSpec == EngineInit /\ [][EngineNext]_vars

\* ------------------------------------------------------------- claims
Created == 1..Len(games)

JoinInProgress(g) == \E s \in Slots : reqs[s].kind = "join" /\ reqs[s].gid = g

\* C1: for every game the settlement is applied at most once: the winner is
\* credited the prize at most one time and the game gets at most one
\* terminal-status write, whatever the players and the resolver do.
C1_SettledAtMostOnce ==
    \A g \in GameIds : settled[g].credits <= 1 /\ settled[g].writes <= 1

\* C2: start_game_transaction debits the creator and the opponent by the stake
\* when both balances cover it and debits neither otherwise: the step that ends
\* the transaction changes the two balances together or not at all, and the
\* amounts taken from the two sides of a game are always equal.
C2_EscrowAllOrNothing ==
    /\ [](\A g \in GameIds : escrow[g].creator = escrow[g].opponent)
    /\ [][\A s \in Slots :
            (reqs[s].pc = "lock_opp" /\ reqs'[s].pc # "lock_opp") =>
               LET c == reqs[s].rec.creator_id
                   o == reqs[s].user
                   st == reqs[s].rec.stake
               IN IF balance[c] >= st /\ balance[o] >= st /\ reqs'[s].pc = "finish"
                  THEN balance' = [a \in Accounts |->
                                     IF a \in {c, o} THEN balance[a] - st ELSE balance[a]]
                  ELSE balance' = balance /\ reqs'[s].pc = "idle"]_vars

\* C2 witness: one join was refused inside the transaction for insufficient
\* funds and another was accepted.
C2_Witness ==
    \E g \in GameIds, h \in GameIds : escrow[g].rejected > 0 /\ escrow[h].accepted > 0

\* C3: the stakes of one lobby are escrowed at most once: at most one join is
\* accepted, the creator is debited the stake at most once and at most one
\* opponent is debited.
C3_EscrowedAtMostOnce ==
    \A g \in Created :
        /\ escrow[g].accepted <= 1
        /\ escrow[g].creator <= games[g].stake
        /\ Cardinality(escrow[g].opponents) <= 1

\* C4: the debit of the stakes and the lobby -> active transition take effect
\* together: when no join of the game is in progress, its stakes have been
\* debited exactly when it has left status lobby.
C4_EscrowWithActivation ==
    \A g \in Created :
        ~JoinInProgress(g) => (escrow[g].accepted > 0 <=> games[g].status # "lobby")

\* C5: every account balance is non-negative in every reachable state.
C5_BalancesNonNegative == \A a \in Accounts : balance[a] >= 0

\* C5 witness: a join into one game was accepted and a join into another game
\* was refused inside the transaction because a balance no longer covered it.
C5_Witness ==
    \E g \in GameIds, h \in GameIds :
        /\ g # h
        /\ escrow[g].accepted > 0
        /\ escrow[h].rejected > 0
        /\ \E a \in Accounts : balance[a] < games[h].stake

\* C6: the winner credit and the terminal-status write are one atomic step: a
\* game is finished or forfeited exactly when a prize was credited for it, also
\* after an end_game_transaction that failed part-way.
C6_CreditWithTerminalStatus ==
    \A g \in Created :
        /\ games[g].status \in Terminal <=> settled[g].credited > 0
        /\ settled[g].credits = settled[g].writes

\* C6 witness: an end_game_transaction of a game failed part-way and another
\* one committed.
C6_Witness ==
    \E g \in Created :
        settled[g].aborted /\ games[g].status \in Terminal /\ settled[g].credited > 0

Rank(status) == CASE status = "lobby" -> 0 [] status = "active" -> 1 [] OTHER -> 2

\* C7: a game's status only moves forward along lobby -> active ->
\* (finished | forfeited), and a finished or forfeited game keeps its status.
C7_StatusOnlyForward ==
    [][\A g \in Created :
         /\ Rank(games'[g].status) >= Rank(games[g].status)
         /\ games[g].status \in Terminal => games'[g].status = games[g].status]_vars

\* C7 witness: a finished game on which a further settlement was committed.
C7_Witness ==
    \E g \in Created : games[g].status = "finished" /\ settled[g].writes >= 2

\* C8: once a game's winner id is set, no later operation changes it.
C8_WinnerSetOnce ==
    [][\A g \in Created :
         games[g].winner_id # None => games'[g].winner_id = games[g].winner_id]_vars

\* C8 witness: a game whose winner id is set and was written twice.
C8_Witness ==
    \E g \in Created : games[g].winner_id \in Accounts /\ settled[g].writes = 2

\* C9: once a game is finished or forfeited its board snapshot, current-turn id
\* and last-action timestamp never change again.
C9_TerminalNeverMutated ==
    [][\A g \in Created :
         games[g].status \in Terminal =>
            /\ games'[g].game_data = games[g].game_data
            /\ games'[g].current_turn_id = games[g].current_turn_id
            /\ games'[g].last_action_at = games[g].last_action_at]_vars

\* the step is a committed settlement of game g
Settles(g) == settled'[g].writes = settled[g].writes + 1

\* C10 as stated: every settlement credits the winner exactly
\* stake * 2 * (1 - 0.10) and changes no other balance.
C10_PrizeExact ==
    [][\A g \in Created :
         Settles(g) =>
            \E w \in Accounts :
               /\ 100 * (balance'[w] - balance[w]) = 180 * games[g].stake
               /\ \A a \in Accounts \ {w} : balance'[a] = balance[a]]_vars

\* C10 amended: every settlement credits the winner stake * 2 * (1 - 0.10)
\* rounded to the two decimals of the balance column (half up), which is the
\* exact amount whenever that has at most two decimals (90.00 for stake 50),
\* and changes no other balance.
C10_PrizeRounded ==
    [][\A g \in Created :
         Settles(g) =>
            \E w \in Accounts :
               /\ balance'[w] - balance[w] = (180 * games[g].stake + 50) \div 100
               /\ (180 * games[g].stake) % 100 = 0 =>
                     100 * (balance'[w] - balance[w]) = 180 * games[g].stake
               /\ games[g].stake = 5000 => balance'[w] - balance[w] = 9000
               /\ \A a \in Accounts \ {w} : balance'[a] = balance[a]]_vars

\* C10 witness: a game with stake 50.00 was settled and 90.00 was credited.
C10_Witness ==
    \E g \in Created :
        games[g].stake = 5000 /\ settled[g].writes = 1 /\ settled[g].credited = 9000

\* C11: the case of the claim is a game in status active; no reachable state has
\* one (the join never writes the status, see C4), so the resolver never finds a
\* game to forfeit.
C11_NeverActive == \A g \in Created : games[g].status # "active"

\* C12: two requests on one game are never both accepted against the same
\* stored snapshot: no two requests computed from a game's row are waiting to
\* save it at the same time.
C12_NoLostUpdate ==
    \A s \in Slots, t \in Slots :
        (s # t /\ reqs[s].pc = "save" /\ reqs[t].pc = "save") => reqs[s].gid # reqs[t].gid

\* C13: a roll, move or pass request from an account that is not the game's
\* current-turn id is refused: the refusal leaves every game row, every balance
\* and every request unchanged, and no request is taken up for anyone but the
\* holder of the turn.
C13_WrongTurnRejected ==
    [][/\ refused' # refused => (games' = games /\ balance' = balance /\ reqs' = reqs)
       /\ \A s \in Slots :
             (reqs[s].pc = "idle" /\ reqs'[s].kind \in {"roll", "move", "pass"}) =>
                reqs'[s].user = games[reqs'[s].gid].current_turn_id]_vars

\* C13 witness: a request was refused on a game that has a saved roll.
C13_Witness ==
    refused > 0 /\ \E g \in Created : games[g].game_data.dice_roll # 0

\* C15: the roll request that is the third six in a row of a turn forfeits the
\* turn and leaves the consecutive-six counter at 0, and a non-six roll leaves
\* the counter at 0.
C15_ThirdSixForfeits ==
    [][\A s \in Slots :
          (reqs[s].pc = "idle" /\ reqs'[s].kind = "roll") =>
             (sixes'[reqs'[s].gid] \in {0, 3} => reqs'[s].eng.consecutive_sixes = 0)]_vars

\* C20: no settlement is triggered for a winner holding fewer tokens at 58 than
\* the win condition the game was created with.
C20_WinnerHasTokensHome ==
    \A s \in Slots :
        reqs[s].pc = "settle" =>
           Count(PlayerData(reqs[s].eng.players, reqs[s].eng.winner).tokens, WINNING_POSITION)
              >= games[reqs[s].gid].win_condition

\* the token moved by the last call on the engine, before and after the call, and
\* the tokens of a player before and after it
TokenBefore == PlayerData(engine.before.players, engine.player_id).tokens[engine.token_index + 1]
TokenAfter == PlayerData(engine.game.players, engine.player_id).tokens[engine.token_index + 1]
TokensBefore(pid) == PlayerData(engine.before.players, pid).tokens
TokensAfter(pid) == PlayerData(engine.game.players, pid).tokens
RosterIds == {engine.game.players[k].id : k \in 1..Len(engine.game.players)}
Opponents == RosterIds \ {engine.player_id}
Moved == engine.op = "move" /\ TokenAfter # TokenBefore
OnPath(pos) == pos \in 0..(PATH_LENGTH - 1)

\* C14: every player of the roster has exactly 4 tokens, each in the yard (-1),
\* on the shared path 0..51, in the home stretch 52..57 or at 58.
C14_TokensValid ==
    \A pid \in RosterIds :
        /\ Len(TokensAfter(pid)) = 4
        /\ \A i \in 1..4 : TokensAfter(pid)[i] \in {-1} \cup 0..WINNING_POSITION

\* C14 witness: a move of a token in the home stretch whose roll overshoots 58
\* was made, and a move that took a token from the path into the stretch.
C14_Witness ==
    /\ engine.op = "move"
    /\ \/ TokenBefore >= HOME_STRETCH_START
          /\ TokenBefore + engine.before.dice_roll > WINNING_POSITION
       \/ OnPath(TokenBefore) /\ TokenAfter >= HOME_STRETCH_START

\* C16: a move never puts the moving token on a non-safe path cell where one
\* opposing player already has two or more tokens.
C16_NoLandingOnBlock ==
    Moved =>
       ~(/\ OnPath(TokenAfter)
         /\ TokenAfter \notin SAFE_ZONES
         /\ \E opp \in Opponents : Count(TokensBefore(opp), TokenAfter) >= 2)

\* C17: after a move that lands on a path cell, every opposing player who had
\* exactly one token on it has that token back in the yard when the cell is
\* non-safe, and no token of an opposing player has changed when it is safe.
C17_KnockoutEverySingle ==
    (Moved /\ OnPath(TokenAfter)) =>
       \A opp \in Opponents :
          IF TokenAfter \in SAFE_ZONES
          THEN TokensAfter(opp) = TokensBefore(opp)
          ELSE Count(TokensBefore(opp), TokenAfter) = 1 =>
                  TokensAfter(opp) = [i \in 1..4 |-> IF TokensBefore(opp)[i] = TokenAfter
                                                      THEN -1 ELSE TokensBefore(opp)[i]]

\* C18: a move of a token in the home stretch whose resulting position would
\* exceed 58 is rejected: the token stays, no token moves and the turn is not
\* advanced.
C18_OvershootRejected ==
    (/\ engine.op = "move"
     /\ TokenBefore \in HOME_STRETCH_START..(WINNING_POSITION - 1)
     /\ TokenBefore + engine.before.dice_roll > WINNING_POSITION) =>
       /\ engine.game.players = engine.before.players
       /\ engine.game.current_turn_player_id = engine.before.current_turn_player_id

\* C19: for a face value 1..6, get_movable_tokens holds a token exactly when it
\* is in the yard and the face is 6, or it is on the path 0..51, or it is in the
\* home stretch 52..57 and position + face <= 58; a token at 58 is never in it.
C19_MovableTokens ==
    (engine.op = "movable" /\ engine.before.dice_roll \in 1..6) =>
       \A i \in 0..3 :
          LET pos == TokensBefore(engine.player_id)[i + 1]
              face == engine.before.dice_roll
          IN /\ i \in engine.ret <=>
                   \/ pos = -1 /\ face = 6
                   \/ pos \in 0..51
                   \/ pos \in 52..57 /\ pos + face <= 58
             /\ pos = 58 => i \notin engine.ret

\* C19 witness: the movable tokens were asked for a player with a token in the
\* home stretch that the roll overshoots, a token in the yard and a token at 58.
C19_Witness ==
    /\ engine.op = "movable"
    /\ \E i \in 1..4, j \in 1..4, k \in 1..4 :
          /\ TokensBefore(engine.player_id)[i] \in 52..57
          /\ TokensBefore(engine.player_id)[i] + engine.before.dice_roll > 58
          /\ TokensBefore(engine.player_id)[j] = -1
          /\ TokensBefore(engine.player_id)[k] = 58
          /\ (j - 1) \in engine.ret

\* C21: in a game reloaded from the store, a pass after a saved non-six roll is
\* accepted and hands the turn to a player of the game.
C21_PassHandsTurnOn ==
    \A g \in Created :
        (pending[g] /\ games[g].game_data.dice_roll # 6) =>
           /\ PassOutcome(games[g]).pc = "save"
           /\ HasPlayer(games[g].game_data.players,
                        PassOutcome(games[g]).eng.current_turn_player_id)

\* the start cell of the player who made the last call on the engine
MoverStart == PlayerData(engine.before.players, engine.player_id).start_pos

\* in a two-player game a player has rolled a 6 and moved a token out of the
\* yard while exactly one token of the other player stood on the start cell
C22_Case ==
    /\ engine.op = "move"
    /\ Len(engine.before.players) = 2
    /\ engine.before.dice_roll = 6
    /\ TokenBefore = -1
    /\ \A opp \in Opponents : Count(TokensBefore(opp), MoverStart) = 1

\* C22 as stated: the other player's token on the start cell is sent to the
\* yard, the mover's token is on the start cell and the mover keeps the turn.
C22_StartCellCapture ==
    C22_Case =>
       /\ TokenAfter = MoverStart
       /\ \A opp \in Opponents : Count(TokensAfter(opp), MoverStart) = 0
       /\ engine.game.current_turn_player_id = engine.player_id

\* C22 amended: every start cell is a safe cell, so the other player's token
\* stays where it is; the mover's token is on the start cell and the mover
\* keeps the turn.
C22_StartCellSafe ==
    C22_Case =>
       /\ TokenAfter = MoverStart
       /\ MoverStart \in SAFE_ZONES
       /\ \A opp \in Opponents : TokensAfter(opp) = TokensBefore(opp)
       /\ engine.game.current_turn_player_id = engine.player_id

\* C22 witness: the move of the case was made and both tokens are on the start cell.
C22_Witness ==
    C22_Case /\ TokenAfter = MoverStart /\ \E opp \in Opponents : Count(TokensAfter(opp), MoverStart) = 1

\* C23: no start_game_transaction ever waits for a row lock in a cycle of
\* transactions waiting for each other.
C23_NoLockCycle ==
    \A s \in Slots : ~(reqs[s].pc = "lock_opp" /\ InWaitCycle(s))

\* C24: a move naming a token that is not movable for the dice value, or made
\* before any roll, leaves the token positions and the current turn unchanged.
C24_IllegalMoveRejected ==
    (/\ engine.op = "move"
     /\ \/ engine.before.dice_roll = 0
        \/ engine.token_index \notin get_movable_tokens(engine.before, engine.player_id)) =>
       /\ engine.game.players = engine.before.players
       /\ engine.game.current_turn_player_id = engine.before.current_turn_player_id

\* the steps from a path cell to the home-entry cell of the mover
ToHomeEntry(pos) == (MoverStart - 1 + PATH_LENGTH - pos) % PATH_LENGTH

\* C25: a token on the shared path moves to (pos + face) mod 52 when the move
\* does not cross the mover's home-entry cell and otherwise to
\* 52 + stepsPastEntry - 1; it never steps from the home-entry cell onto or
\* past its start cell on the path.
C25_PathMove ==
    (engine.op = "move" /\ OnPath(TokenBefore) /\ engine.before.dice_roll \in 1..6) =>
       LET face == engine.before.dice_roll
       IN /\ TokenAfter = IF face <= ToHomeEntry(TokenBefore)
                          THEN (TokenBefore + face) % PATH_LENGTH
                          ELSE HOME_STRETCH_START + (face - ToHomeEntry(TokenBefore)) - 1
          /\ OnPath(TokenAfter) => ToHomeEntry(TokenAfter) = ToHomeEntry(TokenBefore) - face

\* C25 witness: a token of the fourth player went from the path into the home
\* stretch, past its home-entry cell.
C25_Witness ==
    /\ engine.op = "move"
    /\ MoverStart = 39
    /\ OnPath(TokenBefore)
    /\ TokenAfter > HOME_STRETCH_START

\* C26: after a move that sends an opposing token to the yard the turn stays
\* with the mover.
C26_CaptureKeepsTurn ==
    (/\ Moved
     /\ engine.game.winner = None
     /\ \E opp \in Opponents : TokensAfter(opp) # TokensBefore(opp)) =>
       engine.game.current_turn_player_id = engine.player_id

\* C27: the case of the claim is a forfeit settlement; no reachable state has a
\* forfeited game, because no game is ever active (C11) for the scan to find.
C27_NeverForfeited == \A g \in Created : games[g].status # "forfeited"

\* C28: for every game the amount credited by settlements is at most the
\* amount debited as its stakes, and the sum of all balances is at most the
\* sum of the deposit credits.
C28_NoMoneyCreated ==
    /\ \A g \in GameIds : settled[g].credited <= escrow[g].creator + escrow[g].opponent
    /\ SumOver(balance, Accounts)
          <= SumOver([a \in Accounts |->
                        deposits[a] * Round2(DepositFinalAmount(CHOOSE amount \in DepositAmounts : TRUE))],
                     Accounts)

\* C29: the engine rebuilt from get_state equals the engine that was saved in
\* roster, join order, token positions, current turn, dice value,
\* consecutive-six counter, win condition and winner.
C29_RoundTrip ==
    engine.op # "none" =>
       LET back == Rehydrate(get_state(engine.game))
       IN /\ back.players = engine.game.players
          /\ back.player_order = engine.game.player_order
          /\ back.current_turn_player_id = engine.game.current_turn_player_id
          /\ back.dice_roll = engine.game.dice_roll
          /\ back.consecutive_sixes = engine.game.consecutive_sixes
          /\ back.win_condition = engine.game.win_condition
          /\ back.winner = engine.game.winner

\* C30: a roll request is taken up only when no rolled value is pending, and a
\* move or pass request only when one is.
C30_RollsAndMovesAlternate ==
    [][\A s \in Slots :
          (reqs[s].pc = "idle" /\ reqs'[s].pc # "idle") =>
             /\ reqs'[s].kind = "roll" => ~pending[reqs'[s].gid]
             /\ reqs'[s].kind \in {"move", "pass"} => pending[reqs'[s].gid]]_vars


\* C31: in every active game the current_turn_id of the row equals the
\* current_turn_player_id of the stored snapshot and is the creator or the
\* opponent. No reachable state has an active game (C11), so the formula holds
\* for want of a case.
C31_ActiveTurnIdsAgree ==
    \A g \in Created :
        games[g].status = "active" =>
           /\ games[g].current_turn_id = games[g].game_data.current_turn_player_id
           /\ games[g].current_turn_id \in {games[g].creator_id, games[g].opponent_id}

\* the same agreement on every stored row, whatever its status: create_game and
\* save_game_state write the row's turn id and the snapshot together.
C31_StoredTurnIdsAgree ==
    \A g \in Created :
        games[g].current_turn_id = games[g].game_data.current_turn_player_id

\* the snapshot a join would hand to update_game_after_start names player 0 as
\* the current turn, which is no player of the game and not the row's turn id.
C31_JoinSnapshotTurn ==
    \A g \in Created, b \in Accounts :
        b # games[g].creator_id =>
           LET state == get_state(JoinedGame(games[g].game_data, b))
           IN /\ state.current_turn_player_id = 0
              /\ ~HasPlayer(state.players, state.current_turn_player_id)
              /\ state.current_turn_player_id # games[g].current_turn_id

====
